---- MODULE Spec2Model ----
(***************************************************************************)
(* Model of the express_ts_template error taxonomy (utils/error.util) and  *)
(* of the error-response pipeline (middlewares/error.middleware) as it is  *)
(* mounted by ExpressServer.initializeErrorHandling.                       *)
(* Spec is the request pipeline of the Express application; SpecLife and   *)
(* SpecLifeFair are the process of loaders/app: ExpressServer.start, the   *)
(* signal handlers and ExpressServer.stop.                                 *)
(*                                                                         *)
(* Strings are sequences of fragments; request paths are sequences of      *)
(* single characters so that the /^\/api/ replacement is computed on       *)
(* characters.  An optional value is None (<<>>) or Some(v) (<<v>>); an    *)
(* absent number is Undefined.                                             *)
(***************************************************************************)
EXTENDS Integers, Sequences, FiniteSets, TLC

VARIABLES env, pc, req, res, err, ctor, origin, entry, attempts, thrown

\* the process and its server: loaders/app and ExpressServer.start / stop
VARIABLES proc, exitCode, spc, steps, failedStep, mongo, redis, http, conns,
          signals, shut, settled, reason

requestVars == <<env, pc, req, res, err, ctor, origin, entry, attempts, thrown>>

life == <<proc, exitCode, spc, steps, failedStep, mongo, redis, http, conns,
          signals, shut, settled, reason>>

vars == <<env, pc, req, res, err, ctor, origin, entry, attempts, thrown,
          proc, exitCode, spc, steps, failedStep, mongo, redis, http, conns,
          signals, shut, settled, reason>>

(* ------------------------------ bounds --------------------------------- *)

\* longest request path, in segments
MaxSegs == 2

\* most entries in an errors map or a keyValue map
MaxFields == 2

\* most SIGTERM / SIGINT deliveries in one run
MaxSignals == 2

\* most client connections open on the HTTP server at once
MaxConns == 2

(* --------------------------- JS value helpers -------------------------- *)

None == <<>>

Some(v) == <<v>>

Undefined == -1

\* JS truthiness of an optional number: undefined and 0 are falsy
Truthy(n) == n # Undefined /\ n # 0

StringValue(s) == [type |-> "string", message |-> s, enumerable |-> {}]

\* JSON.stringify of a value placed in a response body: a string is kept,
\* an Error object is reduced to its enumerable own properties
ToJSON(v) ==
    IF v.type = "string"
    THEN [type |-> "string", text |-> v.message, props |-> {}]
    ELSE [type |-> "object", text |-> <<>>, props |-> v.enumerable]

\* needle occurs in hay as a contiguous run
Contains(hay, needle) ==
    \E i \in 1..(Len(hay) + 1) :
        /\ i + Len(needle) - 1 <= Len(hay)
        /\ SubSeq(hay, i, i + Len(needle) - 1) = needle

RECURSIVE JoinComma(_)
\* Array.prototype.join(","): undefined elements are rendered as ""
JoinComma(items) ==
    IF Len(items) = 0 THEN <<>>
    ELSE IF Len(items) = 1
         THEN (IF items[1] = None THEN <<>> ELSE items[1][1])
         ELSE (IF items[1] = None THEN <<>> ELSE items[1][1])
              \o <<",">> \o JoinComma(Tail(items))

\* a value interpolated in a template literal
TemplateOf(opt) == IF opt = None THEN <<"undefined">> ELSE opt[1]

(* ----------------------------- error.util ------------------------------ *)

StackOf(class) == <<"Error\n    at new ", class>>

AppErrorCtor(message, statusCode, originalError) ==
    [ isAppError    |-> TRUE,
      class         |-> "AppError",
      name          |-> "Error",
      message       |-> message,
      statusCode    |-> IF statusCode = Undefined THEN 500 ELSE statusCode,
      isOperational |-> TRUE,
      originalError |-> originalError,
      code          |-> Undefined,
      errors        |-> None,
      keyValue      |-> None,
      path          |-> None,
      stack         |-> StackOf("AppError") ]

\* a default parameter value applies when the argument is undefined
DefaultArg(arg, dflt) == IF arg = None THEN dflt ELSE arg[1]

SubclassOf(base, class) ==
    [base EXCEPT !.class = class, !.stack = StackOf(class)]

BadRequestErrorCtor(message, e) ==
    SubclassOf(AppErrorCtor(DefaultArg(message, <<"Validation failed">>), 400, e),
               "BadRequestError")

NotFoundErrorCtor(message, e) ==
    SubclassOf(AppErrorCtor(DefaultArg(message, <<"Resource not found">>), 404, e),
               "NotFoundError")

UnauthorizedErrorCtor(message, e) ==
    SubclassOf(AppErrorCtor(DefaultArg(message, <<"Unauthorized access">>), 401, e),
               "UnauthorizedError")

ForbiddenErrorCtor(message, e) ==
    SubclassOf(AppErrorCtor(DefaultArg(message, <<"Forbidden access">>), 403, e),
               "ForbiddenError")

\* mutant: the default message is copied from the class above
ConflictErrorCtorCopiedDefault(message, e) ==
    SubclassOf(AppErrorCtor(DefaultArg(message, <<"Forbidden access">>), 409, e),
               "ConflictError")

ConflictErrorCtor(message, e) ==
    SubclassOf(AppErrorCtor(DefaultArg(message, <<"Resource conflict">>), 409, e),
               "ConflictError")

RateLimitErrorCtor(message) ==
    SubclassOf(AppErrorCtor(DefaultArg(message, <<"Rate limit exceeded">>), 429, None),
               "RateLimitError")

ServiceUnavailableErrorCtor(message) ==
    SubclassOf(AppErrorCtor(DefaultArg(message, <<"Service temporarily unavailable">>),
                            503, None),
               "ServiceUnavailableError")

\* mutant: the subclass forgets to pass its status to the base constructor
QueueTimeoutErrorCtorNoStatus(message) ==
    SubclassOf(AppErrorCtor(DefaultArg(message, <<"504 Gateway Timeout">>),
                            Undefined, None),
               "QueueTimeoutError")

QueueTimeoutErrorCtor(message) ==
    SubclassOf(AppErrorCtor(DefaultArg(message, <<"504 Gateway Timeout">>), 504, None),
               "QueueTimeoutError")

CauseClasses == {"AppError", "BadRequestError", "NotFoundError",
                 "UnauthorizedError", "ForbiddenError", "ConflictError"}

MessageOnlyClasses == {"RateLimitError", "ServiceUnavailableError",
                       "QueueTimeoutError"}

TaxonomyClasses == CauseClasses \cup MessageOnlyClasses

\* new <class>(...) with the arguments the call site passes
Construct(c) ==
    CASE c.class = "AppError" ->
            AppErrorCtor(DefaultArg(c.message, <<>>), c.statusCode, c.cause)
      [] c.class = "BadRequestError"   -> BadRequestErrorCtor(c.message, c.cause)
      [] c.class = "NotFoundError"     -> NotFoundErrorCtor(c.message, c.cause)
      [] c.class = "UnauthorizedError" -> UnauthorizedErrorCtor(c.message, c.cause)
      [] c.class = "ForbiddenError"    -> ForbiddenErrorCtor(c.message, c.cause)
      [] c.class = "ConflictError"     -> ConflictErrorCtor(c.message, c.cause)
      [] c.class = "RateLimitError"    -> RateLimitErrorCtor(c.message)
      [] c.class = "ServiceUnavailableError" ->
            ServiceUnavailableErrorCtor(c.message)
      [] c.class = "QueueTimeoutError" -> QueueTimeoutErrorCtor(c.message)

(* ------------------------------- inputs -------------------------------- *)

\* causes a failure may wrap: a plain Error, and a driver error that
\* carries enumerable properties of its own
CauseA == [type |-> "object", message |-> <<"connect ECONNREFUSED">>,
           enumerable |-> {}]

CauseB == [type |-> "object", message |-> <<"E11000 duplicate key">>,
           enumerable |-> {"code", "keyValue"}]

CauseArgs == {None, Some(CauseA), Some(CauseB)}

MessageArgs == {None, Some(<<>>), Some(<<"custom message">>)}

StatusArgs == {Undefined, 0, 418}

CtorArgs ==
    [class : {"AppError"}, message : MessageArgs, statusCode : StatusArgs,
     cause : CauseArgs]
    \cup [class : CauseClasses \ {"AppError"}, message : MessageArgs,
          statusCode : {Undefined}, cause : CauseArgs]
    \cup [class : MessageOnlyClasses, message : MessageArgs,
          statusCode : {Undefined}, cause : {None}]

NoCtor == [class |-> "Error", message |-> None, statusCode |-> Undefined,
           cause |-> None]

Names == {"Error", "ValidationError", "CastError"}

DuplicateKeyCode == 11000

\* properties assigned on a taxonomy failure after construction
Decorations ==
    [name : Names, code : {Undefined}]
    \cup [name : {"Error"}, code : {DuplicateKeyCode}]

Decorate(f, d) == [f EXCEPT !.name = d.name, !.code = d.code]

Fields == {<<"email">>, <<"name">>}

\* insertion-ordered keys of an object: sequences of distinct fields
KeySeqs ==
    { ks \in UNION { [1..n -> Fields] : n \in 0..MaxFields } :
        \A i, j \in DOMAIN ks : i # j => ks[i] # ks[j] }

EntryOf(f, withMessage) ==
    [field |-> f,
     message |-> IF withMessage THEN Some(f \o <<" is invalid">>) ELSE None]

ErrorsMaps ==
    { [i \in DOMAIN ks |-> EntryOf(ks[i], flags[i])] :
        ks \in KeySeqs, flags \in [1..MaxFields -> BOOLEAN] }

\* failures raised by collaborators: not instances of AppError.  A property
\* the renderer reads only under another property's test is left absent
\* when that test fails.
CollaboratorErrors ==
    { [ isAppError    |-> FALSE,
        class         |-> "Error",
        name          |-> n,
        message       |-> m,
        statusCode    |-> sc,
        isOperational |-> FALSE,
        originalError |-> None,
        code          |-> cd,
        errors        |-> es,
        keyValue      |-> kv,
        path          |-> cp,
        stack         |-> StackOf(n) ] :
      n \in Names, m \in {<<>>, <<"disk full">>}, sc \in StatusArgs,
      cd \in {Undefined, DuplicateKeyCode},
      es \in {None} \cup { Some(e) : e \in ErrorsMaps },
      kv \in {None} \cup { Some(k) : k \in KeySeqs },
      cp \in {None, Some(<<"age">>)} }

Relevant(f) ==
    /\ f.name # "ValidationError" => f.errors = None
    /\ f.name # "CastError" => f.path = None
    /\ f.code # DuplicateKeyCode => f.keyValue = None

Throwables ==
    { [ctor |-> c, err |-> Decorate(Construct(c), d)] :
        c \in CtorArgs, d \in Decorations }
    \cup { [ctor |-> NoCtor, err |-> f] :
            f \in { g \in CollaboratorErrors : Relevant(g) } }

Slash == <<"/">>

Segments == { <<"a", "p", "i">>, <<"a", "p", "i", "s">>, <<"w">> }

RECURSIVE PathOf(_)
PathOf(segs) ==
    IF Len(segs) = 0 THEN <<>>
    ELSE Slash \o Head(segs) \o PathOf(Tail(segs))

Paths ==
    { IF Len(segs) = 0 THEN Slash ELSE PathOf(segs) :
        segs \in UNION { [1..n -> Segments] : n \in 0..MaxSegs } }

Modes == {"development", "production", "test"}

(* -------------------------- error.middleware --------------------------- *)

GenericMessage == <<"Something went wrong, try again later">>

Timestamp == <<"ISO-8601">>

\* String.prototype.replace(/^\/api/, "")
StripApiPrefix(url) ==
    IF Len(url) >= 4 /\ SubSeq(url, 1, 4) = <<"/", "a", "p", "i">>
    THEN SubSeq(url, 5, Len(url))
    ELSE url

\* mutant: the message leaves the requested url out
RouteNotFoundMessageNoUrl(url) == <<"Route not found">>

RouteNotFoundMessage(url) == <<"Route not found : ">> \o url

\* mutant: the status is read without the "|| 500" fallback
DefaultErrorOfNoFallback(e) ==
    [ statusCode    |-> e.statusCode,
      msg           |-> IF e.message # <<>> THEN e.message ELSE GenericMessage,
      originalError |-> IF e.originalError # None THEN e.originalError[1]
                        ELSE StringValue(<<"Error">>),
      threw         |-> "" ]

DefaultErrorOf(e) ==
    [ statusCode    |-> IF Truthy(e.statusCode) THEN e.statusCode ELSE 500,
      msg           |-> IF e.message # <<>> THEN e.message ELSE GenericMessage,
      originalError |-> IF e.originalError # None THEN e.originalError[1]
                        ELSE StringValue(<<"Error">>),
      threw         |-> "" ]

\* mutant: only direct instances of the base class are recognised
InstanceOfAppErrorBaseOnly(e) == e.isAppError /\ e.class = "AppError"

InstanceOfAppError(e) == e.isAppError

TaxonomyBody(d, r) ==
    [ success       |-> FALSE,
      error         |-> TRUE,
      message       |-> d.msg,
      originalError |-> d.originalError,
      statusCode    |-> d.statusCode,
      timestamp     |-> Timestamp,
      path          |-> StripApiPrefix(r.originalUrl) ]

\* Object.values(undefined) throws a TypeError
ValidationStep(e, d) ==
    IF e.name = "ValidationError"
    THEN IF e.errors = None
         THEN [d EXCEPT !.statusCode = 500, !.threw = "TypeError"]
         ELSE [d EXCEPT !.statusCode = 500,
                        !.msg = JoinComma([i \in DOMAIN e.errors[1] |->
                                              e.errors[1][i].message])]
    ELSE d

CastStep(e, d) ==
    IF d.threw = "" /\ e.name = "CastError"
    THEN [d EXCEPT !.statusCode = 400,
                   !.msg = <<"Resource not found. Invalid: ">>
                           \o TemplateOf(e.path)]
    ELSE d

UniqueSuffix == <<" ", "field", " ", "has", " ", "to", " ", "be", " ", "unique">>

DuplicateStep(e, d) ==
    IF d.threw = "" /\ Truthy(e.code) /\ e.code = DuplicateKeyCode
    THEN [d EXCEPT !.statusCode = 400,
                   !.msg = JoinComma([i \in DOMAIN DefaultArg(e.keyValue, <<>>) |->
                                         Some(DefaultArg(e.keyValue, <<>>)[i])])
                           \o UniqueSuffix]
    ELSE d

Classify(e) == DuplicateStep(e, CastStep(e, ValidationStep(e, DefaultErrorOf(e))))

PlainBody(d, e, r, mode) ==
    IF mode = "development"
    THEN [ success |-> FALSE, message |-> d.msg, statusCode |-> d.statusCode,
           timestamp |-> Timestamp, path |-> r.url, stack |-> e.stack ]
    ELSE [ success |-> FALSE, message |-> d.msg, statusCode |-> d.statusCode,
           timestamp |-> Timestamp, path |-> r.url ]

\* res.status(code).json(body): status() assigns the code, json() sets the
\* headers and fails with ERR_HTTP_HEADERS_SENT once they have gone out
ResStatusJson(r, code, body) ==
    IF r.headersSent
    THEN [res |-> [r EXCEPT !.statusCode = code],
          threw |-> "ERR_HTTP_HEADERS_SENT", attempts |-> 1]
    ELSE [res |-> [r EXCEPT !.statusCode = code, !.headersSent = TRUE,
                            !.body = Some(body)],
          threw |-> "", attempts |-> 1]

\* the renderer, from the failure to what it did to the response
Render(e, rq, rs, mode) ==
    IF InstanceOfAppError(e)
    THEN ResStatusJson(rs, DefaultErrorOf(e).statusCode,
                       TaxonomyBody(DefaultErrorOf(e), rq))
    ELSE IF Classify(e).threw # ""
         THEN [res |-> rs, threw |-> Classify(e).threw, attempts |-> 0]
         ELSE ResStatusJson(rs, Classify(e).statusCode,
                            PlainBody(Classify(e), e, rq, mode))

(* ------------------------------ pipeline ------------------------------- *)

NoErr ==
    [ isAppError |-> FALSE, class |-> "none", name |-> "", message |-> <<>>,
      statusCode |-> Undefined, isOperational |-> FALSE,
      originalError |-> None, code |-> Undefined, errors |-> None,
      keyValue |-> None, path |-> None, stack |-> <<>> ]

NoReq == [url |-> <<>>, originalUrl |-> <<>>]

FreshRes == [headersSent |-> FALSE, closed |-> FALSE, statusCode |-> 200,
             body |-> None]

NoEntry == [headersSent |-> FALSE, closed |-> FALSE]

\* app.get("/") and router.get("/healthz")
Routes == { Slash, <<"/", "h", "e", "a", "l", "t", "h", "z">> }

RouteMatches(url) == url \in Routes

\* the process right after loaders/app has been evaluated up to the call of
\* start(): handlers registered, serverInstance constructed, nothing connected
LifeInit ==
    /\ proc = "running"
    /\ exitCode = Undefined
    /\ spc = "boot"
    /\ steps = <<>>
    /\ failedStep = ""
    /\ mongo = "disconnected"
    /\ redis = [status |-> "wait", connected |-> FALSE]
    /\ http = "none"
    /\ conns = 0
    /\ signals = 0
    /\ shut = [i \in 1..MaxSignals |-> "none"]
    /\ settled = ""
    /\ reason = <<>>

Init ==
    /\ env \in Modes
    /\ pc = "idle"
    /\ req = NoReq
    /\ res = FreshRes
    /\ err = NoErr
    /\ ctor = NoCtor
    /\ origin = "none"
    /\ entry = NoEntry
    /\ attempts = 0
    /\ thrown = ""
    /\ LifeInit

\* a request enters the middleware stack
Receive(p) ==
    /\ pc = "idle"
    /\ pc' = "pipeline"
    /\ req' = [url |-> p, originalUrl |-> p]
    /\ res' = FreshRes
    /\ UNCHANGED <<env, err, ctor, origin, entry, attempts, thrown>>
    /\ UNCHANGED life

\* a matched route answers: res.status(200).json("OK")
RespondOk ==
    /\ pc = "pipeline"
    /\ RouteMatches(req.url)
    /\ ~res.headersSent
    /\ res' = [res EXCEPT !.statusCode = 200, !.headersSent = TRUE,
                          !.body = Some([text |-> <<"OK">>])]
    /\ pc' = "done"
    /\ UNCHANGED <<env, req, err, ctor, origin, entry, attempts, thrown>>
    /\ UNCHANGED life

\* a middleware or a route handler hands a failure to next(); a handler of
\* a matched route may have started its response before it fails
PipelineFails(t, partial) ==
    /\ pc = "pipeline"
    /\ partial => RouteMatches(req.url)
    /\ err' = t.err
    /\ ctor' = t.ctor
    /\ origin' = "pipeline"
    /\ res' = [res EXCEPT !.headersSent = partial]
    /\ pc' = "render"
    /\ UNCHANGED <<env, req, entry, attempts, thrown>>
    /\ UNCHANGED life

\* ErrorMiddleware.notFound, reached when no route matched
NotFound ==
    /\ pc = "pipeline"
    /\ ~RouteMatches(req.url)
    /\ err' = NotFoundErrorCtor(Some(RouteNotFoundMessage(req.url)), None)
    /\ ctor' = [class |-> "NotFoundError",
                message |-> Some(RouteNotFoundMessage(req.url)),
                statusCode |-> Undefined, cause |-> None]
    /\ origin' = "notFound"
    /\ pc' = "render"
    /\ UNCHANGED <<env, req, res, entry, attempts, thrown>>
    /\ UNCHANGED life

\* the client goes away while the request is in flight
ClientDisconnect ==
    /\ pc \in {"pipeline", "render"}
    /\ ~res.closed
    /\ res' = [res EXCEPT !.closed = TRUE]
    /\ UNCHANGED <<env, pc, req, err, ctor, origin, entry, attempts, thrown>>
    /\ UNCHANGED life

\* ErrorMiddleware.errorHandlerMiddleware
ErrorHandlerMiddleware ==
    /\ pc = "render"
    /\ entry' = [headersSent |-> res.headersSent, closed |-> res.closed]
    /\ res' = Render(err, req, res, env).res
    /\ thrown' = Render(err, req, res, env).threw
    /\ attempts' = Render(err, req, res, env).attempts
    /\ pc' = "done"
    /\ UNCHANGED <<env, req, err, ctor, origin>>
    /\ UNCHANGED life

\* the request is over; the next one starts from a clean slate
Finish ==
    /\ pc = "done"
    /\ pc' = "idle"
    /\ req' = NoReq
    /\ res' = FreshRes
    /\ err' = NoErr
    /\ ctor' = NoCtor
    /\ origin' = "none"
    /\ entry' = NoEntry
    /\ attempts' = 0
    /\ thrown' = ""
    /\ UNCHANGED env
    /\ UNCHANGED life

Next ==
    \/ \E p \in Paths : Receive(p)
    \/ RespondOk
    \/ \E t \in Throwables, partial \in BOOLEAN : PipelineFails(t, partial)
    \/ NotFound
    \/ ClientDisconnect
    \/ ErrorHandlerMiddleware
    \/ Finish

Spec == Init /\ [][Next]_vars

(* ------------------------------ vocabulary ----------------------------- *)

Rendered == pc = "done" /\ err # NoErr

Written == res.body # None

Body == res.body[1]

TypeOK ==
    /\ env \in Modes
    /\ pc \in {"idle", "pipeline", "render", "done"}
    /\ attempts \in {0, 1}
    /\ thrown \in {"", "TypeError", "ERR_HTTP_HEADERS_SENT"}

Unsent == ~entry.headersSent

ApiPrefix == <<"/", "a", "p", "i">>

\* path is url with a leading /api taken away, stated without the renderer
IsUrlWithoutApi(path, url) ==
    IF Len(url) >= Len(ApiPrefix) /\ SubSeq(url, 1, Len(ApiPrefix)) = ApiPrefix
    THEN ApiPrefix \o path = url
    ELSE path = url

TaxonomyFields == {"success", "error", "message", "originalError",
                   "statusCode", "timestamp", "path"}

\* the status column of the taxonomy table
KindStatus(class) ==
    CASE class = "AppError"                -> 500
      [] class = "BadRequestError"         -> 400
      [] class = "NotFoundError"           -> 404
      [] class = "UnauthorizedError"       -> 401
      [] class = "ForbiddenError"          -> 403
      [] class = "ConflictError"           -> 409
      [] class = "RateLimitError"          -> 429
      [] class = "ServiceUnavailableError" -> 503
      [] class = "QueueTimeoutError"       -> 504

MessageOnly ==
    /\ err.isAppError
    /\ ctor.message # None
    /\ ctor.statusCode = Undefined
    /\ ctor.cause = None

(* -------------------------------- C1 ----------------------------------- *)

\* C1: a taxonomy failure constructed with only a custom message carries
\* the fixed status of its kind, whatever the message is.
Thm_C1_StatusFixedPerKind ==
    MessageOnly =>
        /\ err.class = ctor.class
        /\ err.statusCode = KindStatus(ctor.class)

Wit_C1_QueueTimeoutCustomMessage ==
    /\ MessageOnly
    /\ err.class = "QueueTimeoutError"
    /\ err.message = <<"custom message">>
    /\ err.statusCode = 504

(* -------------------------------- C2 ----------------------------------- *)

\* C2 as stated: a taxonomy failure is answered with its own status and its
\* message verbatim, the path without a leading /api, and exactly the
\* taxonomy-shaped body, whatever name or code it also carries.
CE_C2_StatusAndMessageVerbatim ==
    (Rendered /\ err.isAppError /\ Unsent) =>
        /\ Written
        /\ thrown = ""
        /\ DOMAIN Body = TaxonomyFields
        /\ res.statusCode = err.statusCode
        /\ Body.statusCode = err.statusCode
        /\ Body.message = err.message
        /\ IsUrlWithoutApi(Body.path, req.originalUrl)

\* C2 amended: the status is the variant's statusCode, or 500 when that is
\* 0, and the message is the variant's message, or the generic fallback
\* when that is empty; path and body shape as stated, and no structural
\* classification is applied.
Thm_C2_TaxonomyRendered ==
    (Rendered /\ err.isAppError /\ Unsent) =>
        /\ Written
        /\ thrown = ""
        /\ DOMAIN Body = TaxonomyFields
        /\ res.statusCode = (IF err.statusCode = 0 THEN 500 ELSE err.statusCode)
        /\ Body.statusCode = res.statusCode
        /\ Body.message = (IF err.message = <<>> THEN GenericMessage
                           ELSE err.message)
        /\ IsUrlWithoutApi(Body.path, req.originalUrl)

Wit_C2_NotFoundNamedValidationError ==
    /\ Rendered
    /\ Unsent
    /\ err.class = "NotFoundError"
    /\ err.name = "ValidationError"
    /\ err.message = <<"custom message">>
    /\ req.originalUrl = <<"/", "a", "p", "i", "/", "w">>
    /\ res.statusCode = 404
    /\ Body.path = <<"/", "w">>

(* -------------------------------- C3 ----------------------------------- *)

\* C3: for a path that matches no route, notFound writes nothing itself and
\* hands a NotFound failure to the renderer, and the request ends with a
\* 404 response whose message contains the path.
Thm_C3_UnmatchedRouteIs404 ==
    /\ (origin = "notFound" /\ pc = "render") =>
            /\ attempts = 0
            /\ ~res.headersSent
            /\ res.body = None
            /\ err.class = "NotFoundError"
            /\ ~RouteMatches(req.url)
    /\ (origin = "notFound" /\ pc = "done") =>
            /\ Written
            /\ thrown = ""
            /\ res.statusCode = 404
            /\ Body.statusCode = 404
            /\ Contains(Body.message, req.url)

Wit_C3_UnmatchedApiW ==
    /\ origin = "notFound"
    /\ pc = "done"
    /\ req.url = <<"/", "a", "p", "i", "/", "w">>
    /\ res.statusCode = 404
    /\ Contains(Body.message, req.url)

(* -------------------------------- C4 ----------------------------------- *)

\* C4: when the headers have been sent, or the client is gone, before the
\* renderer runs, the renderer attempts no write and raises no failure.
CE_C4_NoWriteOnceSentOrClosed ==
    (Rendered /\ (entry.headersSent \/ entry.closed)) =>
        /\ attempts = 0
        /\ thrown = ""

(* -------------------------------- C5 ----------------------------------- *)

\* C5: for every failure handed to it the renderer writes the normalized
\* JSON error response and raises no failure of its own.
CE_C5_RendererNeverThrows ==
    (Rendered /\ Unsent) =>
        /\ Written
        /\ thrown = ""

(* -------------------------------- C6 ----------------------------------- *)

\* C6: outside development mode no field of the response body carries the
\* failure's wrapped cause or its stack trace.
CE_C6_CauseNeverExposed ==
    (Rendered /\ Written /\ env # "development") =>
        /\ "stack" \notin DOMAIN Body
        /\ "originalError" \in DOMAIN Body =>
                ToJSON(Body.originalError).type = "string"

(* -------------------------------- C7 ----------------------------------- *)

HasStackField(b) == "stackTrace" \in DOMAIN b \/ "stack" \in DOMAIN b

StackField(b) == IF "stackTrace" \in DOMAIN b THEN b.stackTrace ELSE b.stack

\* C7: for every unclassified failure the response body has a non-empty
\* stack-trace field in development and none in production.
CE_C7_StackOnlyInDevelopment ==
    (Rendered /\ ~err.isAppError /\ Unsent) =>
        /\ env = "development" =>
                /\ Written
                /\ HasStackField(Body)
                /\ StackField(Body) # <<>>
        /\ env = "production" => (Written /\ ~HasStackField(Body))

(* -------------------------------- C8 ----------------------------------- *)

Unshaped(e) ==
    /\ ~e.isAppError
    /\ e.name \notin {"ValidationError", "CastError"}
    /\ e.code # DuplicateKeyCode

\* C8 as stated: a failure that is neither a taxonomy variant nor
\* validation-, cast- or uniqueness-shaped gets status 500 and its own
\* message (or the fallback), whatever statusCode property it carries.
CE_C8_UnclassifiedAlways500 ==
    (Rendered /\ Unshaped(err) /\ Unsent) =>
        /\ Written
        /\ res.statusCode = 500
        /\ Body.statusCode = 500
        /\ Body.message = (IF err.message = <<>> THEN GenericMessage
                           ELSE err.message)

\* C8 amended: the status is the failure's own statusCode property when it
\* has a non-zero one and 500 otherwise; the message is the failure's own
\* message, or the fallback when it has none.
Thm_C8_UnclassifiedStatus ==
    (Rendered /\ Unshaped(err) /\ Unsent) =>
        /\ Written
        /\ thrown = ""
        /\ res.statusCode = (IF err.statusCode \in {Undefined, 0} THEN 500
                             ELSE err.statusCode)
        /\ Body.statusCode = res.statusCode
        /\ Body.message = (IF err.message = <<>> THEN GenericMessage
                           ELSE err.message)

Wit_C8_DiskFullProduction ==
    /\ Rendered
    /\ Unshaped(err)
    /\ Unsent
    /\ env = "production"
    /\ err.message = <<"disk full">>
    /\ err.statusCode = Undefined
    /\ res.statusCode = 500
    /\ Body.message = <<"disk full">>

(* -------------------------------- C9 ----------------------------------- *)

MessagesOf(errors) == [i \in DOMAIN errors |-> errors[i].message]

\* C9: a failure with the validation shape that also has a later shape
\* (here the uniqueness code) is rendered as a validation failure: status
\* 500 and the comma-joined per-field messages.
CE_C9_FirstMatchWins ==
    (/\ Rendered
     /\ Unsent
     /\ ~err.isAppError
     /\ err.name = "ValidationError"
     /\ err.errors # None
     /\ err.code = DuplicateKeyCode) =>
        /\ Written
        /\ res.statusCode = 500
        /\ Body.message = JoinComma(MessagesOf(err.errors[1]))

(* -------------------------------- C10 ---------------------------------- *)

\* C10: a non-taxonomy failure with code 11000 and a keyValue map is
\* answered with status 400 and a message that names every offending field
\* and says it has to be unique.
CE_C10_DuplicateKeyIs400 ==
    (/\ Rendered
     /\ Unsent
     /\ ~err.isAppError
     /\ err.code = DuplicateKeyCode
     /\ err.keyValue # None) =>
        /\ Written
        /\ res.statusCode = 400
        /\ \A i \in DOMAIN err.keyValue[1] :
                Contains(Body.message, err.keyValue[1][i])
        /\ Contains(Body.message, <<"unique">>)

(* -------------------------------- C11 ---------------------------------- *)

\* the message column of the taxonomy table
TableMessage(class) ==
    CASE class = "AppError"        -> <<"Something went wrong, try again later">>
      [] class = "BadRequestError"   -> <<"Validation failed">>
      [] class = "NotFoundError"     -> <<"Resource not found">>
      [] class = "UnauthorizedError" -> <<"Unauthorized access">>
      [] class = "ForbiddenError"    -> <<"Forbidden access">>
      [] class = "ConflictError"     -> <<"Resource conflict">>
      [] class = "RateLimitError"    -> <<"Rate limit exceeded">>
      [] class = "ServiceUnavailableError" ->
            <<"Service temporarily unavailable">>
      [] class = "QueueTimeoutError" -> <<"Gateway Timeout">>

NoMessageGiven == err.isAppError /\ ctor.message = None

\* C11 as stated: each of the nine kinds, constructed without a message,
\* carries the default user message of the taxonomy table.
CE_C11_TableDefaultMessages ==
    NoMessageGiven => err.message = TableMessage(ctor.class)

\* C11 amended: QueueTimeout's default is "504 Gateway Timeout", and the
\* base AppError has no default of its own: without a message it carries
\* the empty message, for which the renderer answers "Something went wrong,
\* try again later".  The other seven kinds carry the table's message.
Thm_C11_DefaultMessages ==
    NoMessageGiven =>
        /\ ctor.class \notin {"AppError", "QueueTimeoutError"} =>
                err.message = TableMessage(ctor.class)
        /\ ctor.class = "QueueTimeoutError" =>
                err.message = <<"504 Gateway Timeout">>
        /\ ctor.class = "AppError" =>
                /\ err.message = <<>>
                /\ (Rendered /\ Unsent) =>
                        (Written /\ Body.message = TableMessage("AppError"))

Wit_C11_QueueTimeoutDefault ==
    /\ NoMessageGiven
    /\ Rendered
    /\ Unsent
    /\ err.class = "QueueTimeoutError"
    /\ err.message = <<"504 Gateway Timeout">>
    /\ Body.message = <<"504 Gateway Timeout">>

(* ---------------------- loaders/app and ExpressServer ------------------- *)

StartOrder == <<"env", "mongo", "redis", "listen">>

Signals == {"SIGTERM", "SIGINT"}

Alive == proc = "running"

\* process.exit(code); how and why record the settlement of stop() that led
\* to it, if any
ExitWith(code, how, why) ==
    /\ proc' = "exited"
    /\ exitCode' = code
    /\ settled' = how
    /\ reason' = why

StaysAlive == UNCHANGED <<proc, exitCode, settled, reason>>

\* mutant: the connect error is logged and swallowed, as disconnect() does
ConnectDbOutcomeSwallowed(ok) == "returned"

\* DatabaseConnection.connect: returns once connected, exits the process
\* with code 1 from its own catch block otherwise
ConnectDbOutcome(ok) == IF ok THEN "returned" ELSE "exit1"

\* RedisConnection.connect skips the call for a client already on its way
RedisSkipsConnect(status) == status \in {"ready", "connect", "connecting"}

\* this.app.listen(...) and the listening / error events of the next tick:
\* an error event makes the handler throw, which the uncaughtException
\* handler turns into process.exit(1)
Listen(bindOk, done) ==
    IF bindOk
    THEN /\ http' = "listening"
         /\ steps' = Append(done, "listen")
         /\ spc' = "started"
         /\ UNCHANGED failedStep
         /\ StaysAlive
    ELSE /\ failedStep' = "listen"
         /\ steps' = done
         /\ spc' = "failed"
         /\ UNCHANGED http
         /\ ExitWith(1, "", <<"[UncaughtException] ", "listen EADDRINUSE">>)

RequiredEnvVars == <<"MONGODB_URI", "JWT_SECRET">>

RequiredEnvVarSet == { RequiredEnvVars[i] : i \in DOMAIN RequiredEnvVars }

RECURSIVE FilterMissing(_, _)
\* requiredEnvVars.filter((v) => !process.env[v])
FilterMissing(names, present) ==
    IF Len(names) = 0 THEN <<>>
    ELSE (IF Head(names) \in present THEN <<>> ELSE <<Head(names)>>)
         \o FilterMissing(Tail(names), present)

MissingVars(present) == FilterMissing(RequiredEnvVars, present)

RECURSIVE JoinCommaSpace(_)
\* Array.prototype.join(", ")
JoinCommaSpace(items) ==
    IF Len(items) = 0 THEN <<>>
    ELSE IF Len(items) = 1 THEN <<items[1]>>
         ELSE <<items[1], ", ">> \o JoinCommaSpace(Tail(items))

\* the bootstrap IIFE calls start(): environment check, then the call of
\* connectDB(), the first await
StartServer(present) ==
    /\ Alive
    /\ spc = "boot"
    /\ IF MissingVars(present) = <<>>
       THEN /\ steps' = Append(steps, "env")
            /\ mongo' = "connecting"
            /\ spc' = "mongo"
            /\ UNCHANGED failedStep
            /\ StaysAlive
       ELSE /\ failedStep' = "env"
            /\ spc' = "failed"
            /\ UNCHANGED <<steps, mongo>>
            /\ ExitWith(1, "", <<"Missing required environment variables: ">>
                                \o JoinCommaSpace(MissingVars(present)))
    /\ UNCHANGED <<redis, http, conns, signals, shut>>
    /\ UNCHANGED requestVars

\* mongoose.connect settles; on success start() goes on to
\* redisConnection.connect(), the second await
MongoConnectSettles(ok, bindOk) ==
    /\ Alive
    /\ spc = "mongo"
    /\ mongo' = IF ok THEN "connected" ELSE "disconnected"
    /\ IF ConnectDbOutcome(ok) = "exit1"
       THEN /\ failedStep' = "mongo"
            /\ spc' = "failed"
            /\ UNCHANGED <<steps, redis, http>>
            /\ ExitWith(1, "", <<"Initial MongoDB connection error: ",
                                  "connect ECONNREFUSED">>)
       ELSE IF RedisSkipsConnect(redis.status)
            THEN /\ redis' = [redis EXCEPT !.connected = TRUE]
                 /\ Listen(bindOk,
                           Append(IF ok THEN Append(steps, "mongo") ELSE steps,
                                  "redis"))
            ELSE /\ redis' = [redis EXCEPT !.status = "connecting"]
                 /\ steps' = IF ok THEN Append(steps, "mongo") ELSE steps
                 /\ failedStep' = IF ok THEN failedStep ELSE "mongo"
                 /\ spc' = "redis"
                 /\ UNCHANGED http
                 /\ StaysAlive
    /\ UNCHANGED <<conns, signals, shut>>
    /\ UNCHANGED requestVars

\* this.client.connect() settles; on success start() goes on to listen
RedisConnectSettles(ok, bindOk) ==
    /\ Alive
    /\ spc = "redis"
    /\ IF ok
       THEN /\ redis' = [status |-> "ready", connected |-> TRUE]
            /\ Listen(bindOk, Append(steps, "redis"))
       ELSE /\ redis' = [redis EXCEPT !.status = "end"]
            /\ failedStep' = "redis"
            /\ spc' = "failed"
            /\ UNCHANGED <<steps, http>>
            /\ ExitWith(1, "", <<"Redis connection failed: ",
                                  "connect ECONNREFUSED">>)
    /\ UNCHANGED <<mongo, conns, signals, shut>>
    /\ UNCHANGED requestVars

\* a client opens a connection to the listening server
ClientConnects ==
    /\ Alive
    /\ http = "listening"
    /\ conns < MaxConns
    /\ conns' = conns + 1
    /\ UNCHANGED <<proc, exitCode, spc, steps, failedStep, mongo, redis, http,
                   signals, shut, settled, reason>>
    /\ UNCHANGED requestVars

\* mutant: the forced-shutdown timer is never set
TimerArmedNever(phase) == FALSE

\* stop() sets the 10 s timer in every call that found a server
TimerArmed(phase) == phase # "none"

\* the close callback without error: mongoose.connection.close() and
\* redisConnection.disconnect() are both called
MongoOnClose(m) == "closing"

RedisOnDisconnect(r) ==
    IF r.connected THEN [r EXCEPT !.status = "closing"] ELSE r

\* the server's close event: the callbacks of the stop() calls run in the
\* order they were registered.  The first call's callback gets no error and
\* starts closing the connections; a later call's callback gets
\* ERR_SERVER_NOT_RUNNING and rejects, and gracefulShutdown exits with 1.
CloseEvent ==
    /\ http' = "closed"
    /\ mongo' = MongoOnClose(mongo)
    /\ redis' = RedisOnDisconnect(redis)
    /\ shut' = [i \in DOMAIN shut |->
                    IF shut[i] = "waitClose" THEN "closingConns" ELSE shut[i]]
    /\ IF \E i \in DOMAIN shut : shut[i] = "waitCloseErr"
       THEN ExitWith(1, "rejected", <<"ERR_SERVER_NOT_RUNNING">>)
       ELSE StaysAlive

\* a client connection ends; the last one lets a closing server close
ConnectionEnds ==
    /\ Alive
    /\ conns > 0
    /\ conns' = conns - 1
    /\ IF http = "closing" /\ conns = 1
       THEN CloseEvent
       ELSE /\ UNCHANGED <<http, mongo, redis, shut>>
            /\ StaysAlive
    /\ UNCHANGED <<spc, steps, failedStep, signals>>
    /\ UNCHANGED requestVars

\* SIGTERM / SIGINT: gracefulShutdown awaits serverInstance.stop() and
\* exits.  Handlers run from the event loop, so not before start() has
\* reached its first await.
Signal(sig) ==
    /\ Alive
    /\ spc # "boot"
    /\ signals < MaxSignals
    /\ signals' = signals + 1
    /\ CASE http = "none" ->
              \* this.server is null: "Server is not running", resolve()
              /\ ExitWith(0, "resolved", <<"Server is not running">>)
              /\ UNCHANGED <<http, mongo, redis, shut>>
         [] http = "listening" /\ conns = 0 ->
              /\ http' = "closed"
              /\ mongo' = MongoOnClose(mongo)
              /\ redis' = RedisOnDisconnect(redis)
              /\ shut' = [shut EXCEPT ![signals + 1] = "closingConns"]
              /\ StaysAlive
         [] http = "listening" /\ conns > 0 ->
              /\ http' = "closing"
              /\ shut' = [shut EXCEPT ![signals + 1] = "waitClose"]
              /\ UNCHANGED <<mongo, redis>>
              /\ StaysAlive
         [] http = "closing" ->
              /\ shut' = [shut EXCEPT ![signals + 1] = "waitCloseErr"]
              /\ UNCHANGED <<http, mongo, redis>>
              /\ StaysAlive
         [] http = "closed" ->
              \* close() on a closed server: the callback gets the error
              /\ ExitWith(1, "rejected", <<"ERR_SERVER_NOT_RUNNING">>)
              /\ UNCHANGED <<http, mongo, redis, shut>>
    /\ UNCHANGED <<spc, steps, failedStep, conns>>
    /\ UNCHANGED requestVars

\* mongoose.connection.close() settles inside Promise.all
MongoCloseSettles(ok) ==
    /\ Alive
    /\ mongo = "closing"
    /\ mongo' = IF ok THEN "closed" ELSE "closeFailed"
    /\ IF ~ok
       THEN ExitWith(1, "rejected", <<"close failed">>)
       ELSE IF redis.status # "closing"
            THEN ExitWith(0, "resolved", <<"Server closed successfully">>)
            ELSE StaysAlive
    /\ UNCHANGED <<spc, steps, failedStep, redis, http, conns, signals, shut>>
    /\ UNCHANGED requestVars

\* this.client.quit() settles inside Promise.all
RedisQuitSettles(ok) ==
    /\ Alive
    /\ redis.status = "closing"
    /\ redis' = IF ok THEN [status |-> "end", connected |-> FALSE]
                ELSE [redis EXCEPT !.status = "quitFailed"]
    /\ IF ~ok
       THEN ExitWith(1, "rejected", <<"close failed">>)
       ELSE IF mongo = "closed"
            THEN ExitWith(0, "resolved", <<"Server closed successfully">>)
            ELSE StaysAlive
    /\ UNCHANGED <<spc, steps, failedStep, mongo, http, conns, signals, shut>>
    /\ UNCHANGED requestVars

\* the forced-shutdown timer of the i-th stop() call fires
ShutdownTimeout(i) ==
    /\ Alive
    /\ TimerArmed(shut[i])
    /\ ExitWith(1, "rejected", <<"Shutdown timeout">>)
    /\ UNCHANGED <<spc, steps, failedStep, mongo, redis, http, conns, signals,
                   shut>>
    /\ UNCHANGED requestVars

NextLife ==
    \/ \E present \in SUBSET RequiredEnvVarSet : StartServer(present)
    \/ \E ok \in BOOLEAN, bindOk \in BOOLEAN : MongoConnectSettles(ok, bindOk)
    \/ \E ok \in BOOLEAN, bindOk \in BOOLEAN : RedisConnectSettles(ok, bindOk)
    \/ ClientConnects
    \/ ConnectionEnds
    \/ \E sig \in Signals : Signal(sig)
    \/ \E ok \in BOOLEAN : MongoCloseSettles(ok)
    \/ \E ok \in BOOLEAN : RedisQuitSettles(ok)
    \/ \E i \in 1..MaxSignals : ShutdownTimeout(i)

SpecLife == Init /\ [][NextLife]_vars

\* the timer is a pending setTimeout of a live process: it fires
SpecLifeFair ==
    /\ Init
    /\ [][NextLife]_vars
    /\ WF_vars(\E i \in 1..MaxSignals : ShutdownTimeout(i))

LifeTypeOK ==
    /\ proc \in {"running", "exited"}
    /\ exitCode \in {Undefined, 0, 1}
    /\ http \in {"none", "listening", "closing", "closed"}
    /\ conns \in 0..MaxConns
    /\ signals \in 0..MaxSignals

(* -------------------------------- C12 ---------------------------------- *)

IsPrefix(a, b) == Len(a) <= Len(b) /\ a = SubSeq(b, 1, Len(a))

\* the steps of StartOrder that come before step
StepsBefore(step) ==
    SubSeq(StartOrder, 1,
           (CHOOSE i \in DOMAIN StartOrder : StartOrder[i] = step) - 1)

\* C12: start() runs environment check, MongoDB connect, Redis connect and
\* listen in that order; the server listens only after the three earlier
\* steps have succeeded, and when one of them fails the process exits with
\* code 1, the server never listens and no later step runs.
Thm_C12_StartOrder ==
    /\ IsPrefix(steps, StartOrder)
    /\ http # "none" =>
            /\ steps = StartOrder
            /\ failedStep = ""
            /\ mongo \notin {"disconnected", "connecting"}
            /\ redis.status \notin {"wait", "connecting"}
    /\ failedStep \in {"env", "mongo", "redis"} =>
            /\ proc = "exited"
            /\ exitCode = 1
            /\ http = "none"
            /\ steps = StepsBefore(failedStep)
    /\ failedStep \in {"env", "mongo"} => redis.status = "wait"
    /\ failedStep = "env" => mongo = "disconnected"

Wit_C12_ListeningAfterAllSteps ==
    /\ proc = "running"
    /\ http = "listening"
    /\ steps = StartOrder
    /\ mongo = "connected"
    /\ redis.status = "ready"

(* -------------------------------- C13 ---------------------------------- *)

\* C13: once start() has begun connecting, the process exits with code 0
\* only after the HTTP server (if listening) has been closed and both the
\* MongoDB and the Redis connection have been closed; connections start to
\* close only after the server's close has completed without error.
CE_C13_ExitZeroOnlyAfterClose ==
    /\ (proc = "exited" /\ exitCode = 0 /\ spc \in {"mongo", "redis", "started"}) =>
            /\ http \in {"none", "closed"}
            /\ mongo = "closed"
            /\ redis.status = "end"
    /\ (mongo \in {"closing", "closed", "closeFailed"}
        \/ redis.status \in {"closing", "quitFailed"}) => http = "closed"

(* -------------------------------- C14 ---------------------------------- *)

\* C14: after a SIGTERM or SIGINT the process eventually exits; when it
\* exits through gracefulShutdown the code is 0 if stop() resolved and 1 if
\* it rejected.
Thm_C14_SignalLeadsToExit ==
    /\ (signals > 0) ~> (proc = "exited")
    /\ [](settled = "resolved" => exitCode = 0)
    /\ [](settled = "rejected" => exitCode = 1)

Wit_C14_ForcedShutdown ==
    /\ signals > 0
    /\ proc = "exited"
    /\ http = "closing"
    /\ settled = "rejected"
    /\ reason = <<"Shutdown timeout">>
    /\ exitCode = 1

====
